---- MODULE Spec2Model ----
(***************************************************************************)
(* A state-machine model of CAT_pack/single_bin.py (BAT on a single bin):  *)
(* step selection, pre-flight checks, the pipeline steps, the per-ORF and  *)
(* per-bin classification loops and the two report files.                  *)
(*                                                                         *)
(* Numbers: bit-scores are positive integers, f is held in hundredths      *)
(* (f = 30 is 0.30) and r in percent, so every comparison is exact.        *)
(* A taxid carrying the '*' suffix of star_lineage is the negated taxid.   *)
(***************************************************************************)
EXTENDS Integers, Sequences, FiniteSets, TLC

VARIABLES
    args,                            \* the parsed command line
    pc,                              \* position of run()
    exit_reason,                     \* why run() called sys.exit(1), "" otherwise
    step_list,
    errors,                          \* results of the pre-flight checks
    log,                             \* steps carried out, in order
    ORFs,                            \* the bin's ORFs in iteration order
    alignment,                       \* the alignment table as it is in the file
    ORF2hits,
    all_hits,
    taxid2parent,
    fastaid2LCAtaxid,
    taxids_with_multiple_offspring,
    n_done,                          \* ORFs the classification loop has handled
    LCAs_ORFs,
    outf1,                           \* rows of <prefix>.bin2classification.txt
    outf2,                           \* rows of <prefix>.ORF2LCA.txt
    n_classified_bins

vars == <<args, pc, exit_reason, step_list, errors, log, ORFs, alignment,
          ORF2hits, all_hits, taxid2parent, fastaid2LCAtaxid,
          taxids_with_multiple_offspring, n_done, LCAs_ORFs, outf1, outf2,
          n_classified_bins>>

----------------------------------------------------------------------------
(* Bounds of the model. *)

\* ORFs in the bin.
MaxORFs == 2

\* Hits of one ORF in the alignment table, where the table is enumerated in full.
MaxHits == 2

----------------------------------------------------------------------------
(* The files of the taxonomy and database folders. *)

\* nodes.dmp: taxid -> parent; 1 is the root, 3 and 4 are siblings under 2.
nodes_dmp == (1 :> 1) @@ (2 :> 1) @@ (3 :> 2) @@ (4 :> 2) @@ (5 :> 1)

\* The fastaid2LCAtaxid file; accession "u" has no entry.
fastaid2LCAtaxid_file == ("a" :> 3) @@ ("b" :> 4) @@ ("c" :> 5) @@ ("d" :> 2)

\* The taxids_with_multiple_offspring file.
taxids_with_multiple_offspring_file == {1, 2}

Accessions == {"a", "b", "c", "d", "u"}

BitScores == {50, 60, 100}

\* -f takes i / 100 for i in 0..99, -r takes 0..49.
FChoices == 0..99

RChoices == 0..49

FValues == {0, 30, 40, 50, 99}

RValues == {0, 5, 20, 49}

\* The taxid string 'no taxid found (...)' returned for an ORF without taxid.
NoTaxidFound == 0

----------------------------------------------------------------------------
(* Sequences. *)

Reverse(s) == [i \in 1..Len(s) |-> s[Len(s) + 1 - i]]

Range(s) == {s[i] : i \in 1..Len(s)}

RECURSIVE SumSeq(_)
SumSeq(s) == IF s = <<>> THEN 0 ELSE Head(s) + SumSeq(Tail(s))

RECURSIVE SortedSeq(_)
\* The members of a set of integers in ascending order.
SortedSeq(S) ==
    IF S = {} THEN <<>>
    ELSE LET m == CHOOSE x \in S : \A y \in S : x <= y
         IN  <<m>> \o SortedSeq(S \ {m})

RECURSIVE InsertHit(_, _)
InsertHit(h, s) ==
    IF s = <<>> THEN <<h>>
    ELSE IF Head(s).bitscore >= h.bitscore THEN <<Head(s)>> \o InsertHit(h, Tail(s))
    ELSE <<h>> \o s

RECURSIVE SortDescending(_)
\* Stable sort of hits by descending bit-score.
SortDescending(hits) ==
    IF hits = <<>> THEN <<>>
    ELSE LET n == Len(hits)
         IN  InsertHit(hits[n], SortDescending(SubSeq(hits, 1, n - 1)))

----------------------------------------------------------------------------
(* tax: lineages, stars, the LCA of an ORF. *)

RECURSIVE find_lineage(_, _)
\* From taxid up to the root, the root included.
find_lineage(taxid, t2p) ==
    IF t2p[taxid] = taxid THEN <<taxid>>
    ELSE <<taxid>> \o find_lineage(t2p[taxid], t2p)

Star(taxid) == IF taxid > 0 THEN -taxid ELSE taxid

Unstar(taxid) == IF taxid < 0 THEN -taxid ELSE taxid

\* Marks the entries that are in the set; an entry already marked stays so.
star_lineage(lineage, multiple_offspring) ==
    [i \in 1..Len(lineage) |->
        IF Unstar(lineage[i]) \in multiple_offspring
        THEN Star(lineage[i]) ELSE lineage[i]]

\* The hits within the range window of the top hit, best first.
HitsInRange(hits, r) ==
    LET sorted == SortDescending(hits)
        top_bitscore == sorted[1].bitscore
    IN  SelectSeq(sorted, LAMBDA h : h.bitscore * 100 >= top_bitscore * (100 - r))

\* As find_LCA_for_ORF, but one hit without taxid leaves the ORF without taxid.
find_LCA_for_ORF_all_or_nothing(hits, f2t, t2p) ==
    LET top_bitscore == CHOOSE b \in {hits[i].bitscore : i \in 1..Len(hits)} :
                            \A i \in 1..Len(hits) : hits[i].bitscore <= b
        list_of_lineages == [i \in 1..Len(hits) |-> find_lineage(f2t[hits[i].hit], t2p)]
        overlap == {t \in Range(list_of_lineages[1]) :
                       \A i \in 1..Len(list_of_lineages) :
                           t \in Range(list_of_lineages[i])}
        first == list_of_lineages[1]
        k == CHOOSE i \in 1..Len(first) :
                 /\ first[i] \in overlap
                 /\ \A j \in 1..(i - 1) : first[j] \notin overlap
    IN  IF \E i \in 1..Len(hits) : hits[i].hit \notin DOMAIN f2t
        THEN <<NoTaxidFound, top_bitscore>>
        ELSE <<first[k], top_bitscore>>

find_LCA_for_ORF(hits, f2t, t2p) ==
    LET top_bitscore == CHOOSE b \in {hits[i].bitscore : i \in 1..Len(hits)} :
                            \A i \in 1..Len(hits) : hits[i].bitscore <= b
        with_taxid == SelectSeq(hits, LAMBDA h : h.hit \in DOMAIN f2t)
        list_of_lineages == [i \in 1..Len(with_taxid) |->
                                find_lineage(f2t[with_taxid[i].hit], t2p)]
        overlap == {t \in Range(list_of_lineages[1]) :
                       \A i \in 1..Len(list_of_lineages) :
                           t \in Range(list_of_lineages[i])}
        first == list_of_lineages[1]
        k == CHOOSE i \in 1..Len(first) :
                 /\ first[i] \in overlap
                 /\ \A j \in 1..(i - 1) : first[j] \notin overlap
    IN  IF with_taxid = <<>> THEN <<NoTaxidFound, top_bitscore>>
        ELSE <<first[k], top_bitscore>>

----------------------------------------------------------------------------
(* tax: the weighted LCA of a bin. *)

\* The entries of LCAs_ORFs that carry a taxid.
WithTaxid(LCAs) == SelectSeq(LCAs, LAMBDA e : e[1] # NoTaxidFound)

\* Summed bit-score of the entries whose lineage holds the taxid.
taxid2bitscore(taxid, entries, t2p) ==
    SumSeq([i \in 1..Len(entries) |->
               IF taxid \in Range(find_lineage(entries[i][1], t2p))
               THEN entries[i][2] ELSE 0])

\* As Whitelisted, but f is read in tenths instead of hundredths.
Whitelisted_f_in_tenths(taxid, entries, t2p, f) ==
    LET total == SumSeq([i \in 1..Len(entries) |-> entries[i][2]])
    IN  \A t \in Range(find_lineage(taxid, t2p)) :
            taxid2bitscore(t, entries, t2p) * 10 >= f * total

\* taxid and all its ancestors have a support of at least f.
Whitelisted(taxid, entries, t2p, f) ==
    LET total == SumSeq([i \in 1..Len(entries) |-> entries[i][2]])
    IN  \A t \in Range(find_lineage(taxid, t2p)) :
            taxid2bitscore(t, entries, t2p) * 100 >= f * total

\* As LongestWhitelisted, but a whitelisted ancestor of a whitelisted taxid is
\* not left out.
AllWhitelisted(entries, t2p, f) ==
    LET seen == UNION {Range(find_lineage(entries[i][1], t2p)) : i \in 1..Len(entries)}
    IN  {t \in seen : Whitelisted(t, entries, t2p, f)}

\* The whitelisted taxids that have no whitelisted descendant.
LongestWhitelisted(entries, t2p, f) ==
    LET seen == UNION {Range(find_lineage(entries[i][1], t2p)) : i \in 1..Len(entries)}
        white == {t \in seen : Whitelisted(t, entries, t2p, f)}
    IN  {t \in white :
            \A u \in white : u # t => t \notin Range(find_lineage(u, t2p))}

find_weighted_LCA(LCAs, t2p, f) ==
    LET entries == WithTaxid(LCAs)
        total == SumSeq([i \in 1..Len(entries) |-> entries[i][2]])
        selected == LongestWhitelisted(entries, t2p, f)
        lineages == [i \in 1..Cardinality(selected) |->
                        find_lineage(SortedSeq(selected)[i], t2p)]
        scores == [i \in 1..Len(lineages) |->
                      [j \in 1..Len(lineages[i]) |->
                          <<taxid2bitscore(lineages[i][j], entries, t2p), total>>]]
        based_on == Cardinality({i \in 1..Len(entries) :
                        Range(find_lineage(entries[i][1], t2p)) \cap selected # {}})
    IN  IF entries = <<>>
        THEN [lineages |-> "no ORFs with taxids found.", lineages_scores |-> <<>>,
              based_on_n_ORFs |-> 0, list |-> <<>>]
        ELSE IF selected = {}
        THEN [lineages |-> "no lineage whitelisted.", lineages_scores |-> <<>>,
              based_on_n_ORFs |-> 0, list |-> <<>>]
        ELSE [lineages |-> "lineages", lineages_scores |-> scores,
              based_on_n_ORFs |-> based_on, list |-> lineages]

\* '{0:.2f}'.format(score): the score in hundredths, rounded half to even.
Format2(score) ==
    LET q == (100 * score[1]) \div score[2]
        rem == (100 * score[1]) % score[2]
    IN  IF 2 * rem < score[2] THEN q
        ELSE IF 2 * rem > score[2] THEN q + 1
        ELSE IF q % 2 = 0 THEN q ELSE q + 1

----------------------------------------------------------------------------
(* The rows of the two reports. *)

Outf1Header ==
    [classification |-> "# bin", i |-> 0, n |-> 0, reason |-> "reason",
     based_on_n_ORFs |-> 0, total_n_ORFs |-> 0, lineage |-> <<>>, scores |-> <<>>]

UnclassifiedRow(reason) ==
    [classification |-> "unclassified", i |-> 0, n |-> 0, reason |-> reason,
     based_on_n_ORFs |-> 0, total_n_ORFs |-> 0, lineage |-> <<>>, scores |-> <<>>]

\* As ClassifiedRow, but the scores are written leaf first.
ClassifiedRow_scores_leaf_first(i, lineages, lineages_scores, based_on_n_ORFs, total_n_ORFs, no_stars, multiple_offspring) ==
    LET lineage == IF ~no_stars
                   THEN star_lineage(lineages[i + 1], multiple_offspring)
                   ELSE lineages[i + 1]
        scores == [j \in 1..Len(lineages_scores[i + 1]) |->
                      Format2(lineages_scores[i + 1][j])]
    IN  IF Len(lineages) = 1
        THEN [classification |-> "classified", i |-> 0, n |-> 0,
              reason |-> "based on ORFs", based_on_n_ORFs |-> based_on_n_ORFs,
              total_n_ORFs |-> total_n_ORFs,
              lineage |-> Reverse(lineage), scores |-> scores]
        ELSE [classification |-> "classified (i/n)", i |-> i + 1, n |-> Len(lineages),
              reason |-> "based on ORFs", based_on_n_ORFs |-> based_on_n_ORFs,
              total_n_ORFs |-> total_n_ORFs,
              lineage |-> Reverse(lineage), scores |-> scores]

\* As ClassifiedRow, but of several classifications the row number and the
\* number of ORFs have changed places in the format call.
ClassifiedRow_arguments_swapped(i, lineages, lineages_scores, based_on_n_ORFs, total_n_ORFs, no_stars, multiple_offspring) ==
    LET lineage == IF ~no_stars
                   THEN star_lineage(lineages[i + 1], multiple_offspring)
                   ELSE lineages[i + 1]
        scores == [j \in 1..Len(lineages_scores[i + 1]) |->
                      Format2(lineages_scores[i + 1][j])]
    IN  IF Len(lineages) = 1
        THEN [classification |-> "classified", i |-> 0, n |-> 0,
              reason |-> "based on ORFs", based_on_n_ORFs |-> based_on_n_ORFs,
              total_n_ORFs |-> total_n_ORFs,
              lineage |-> Reverse(lineage), scores |-> Reverse(scores)]
        ELSE [classification |-> "classified (i/n)", i |-> based_on_n_ORFs,
              n |-> Len(lineages),
              reason |-> "based on ORFs", based_on_n_ORFs |-> i + 1,
              total_n_ORFs |-> total_n_ORFs,
              lineage |-> Reverse(lineage), scores |-> Reverse(scores)]

\* Row i (counted from 0, as enumerate does) of a classified bin.
ClassifiedRow(i, lineages, lineages_scores, based_on_n_ORFs, total_n_ORFs, no_stars, multiple_offspring) ==
    LET lineage == IF ~no_stars
                   THEN star_lineage(lineages[i + 1], multiple_offspring)
                   ELSE lineages[i + 1]
        scores == [j \in 1..Len(lineages_scores[i + 1]) |->
                      Format2(lineages_scores[i + 1][j])]
    IN  IF Len(lineages) = 1
        THEN [classification |-> "classified", i |-> 0, n |-> 0,
              reason |-> "based on ORFs", based_on_n_ORFs |-> based_on_n_ORFs,
              total_n_ORFs |-> total_n_ORFs,
              lineage |-> Reverse(lineage), scores |-> Reverse(scores)]
        ELSE [classification |-> "classified (i/n)", i |-> i + 1, n |-> Len(lineages),
              reason |-> "based on ORFs", based_on_n_ORFs |-> based_on_n_ORFs,
              total_n_ORFs |-> total_n_ORFs,
              lineage |-> Reverse(lineage), scores |-> Reverse(scores)]

Outf2Header == [ORF |-> 0, lineage |-> "# ORF", taxids |-> <<>>, bitscore |-> 0]

\* As ORFStep, but only an ORF with a taxid gets an entry in LCAs_ORFs.
ORFStep_entry_with_lineage(ORF, hits_of, f2t, t2p, multiple_offspring, no_stars) ==
    IF ORF \notin DOMAIN hits_of
    THEN [row |-> [ORF |-> ORF, lineage |-> "ORF has no hit to database",
                   taxids |-> <<>>, bitscore |-> 0],
          entries |-> <<>>]
    ELSE LET LCA == find_LCA_for_ORF(hits_of[ORF], f2t, t2p)
             taxid == LCA[1]
             top_bitscore == LCA[2]
             lineage == IF ~no_stars
                        THEN star_lineage(find_lineage(taxid, t2p), multiple_offspring)
                        ELSE find_lineage(taxid, t2p)
         IN  IF taxid = NoTaxidFound
             THEN [row |-> [ORF |-> ORF, lineage |-> "no taxid found",
                            taxids |-> <<>>, bitscore |-> top_bitscore],
                   entries |-> <<>>]
             ELSE [row |-> [ORF |-> ORF, lineage |-> "lineage",
                            taxids |-> Reverse(lineage), bitscore |-> top_bitscore],
                   entries |-> << <<taxid, top_bitscore>> >>]

\* As ORFStep, but the taxid of the entry is read from the lineage that is written.
ORFStep_entry_from_lineage(ORF, hits_of, f2t, t2p, multiple_offspring, no_stars) ==
    IF ORF \notin DOMAIN hits_of
    THEN [row |-> [ORF |-> ORF, lineage |-> "ORF has no hit to database",
                   taxids |-> <<>>, bitscore |-> 0],
          entries |-> <<>>]
    ELSE LET LCA == find_LCA_for_ORF(hits_of[ORF], f2t, t2p)
             taxid == LCA[1]
             top_bitscore == LCA[2]
             lineage == IF ~no_stars
                        THEN star_lineage(find_lineage(taxid, t2p), multiple_offspring)
                        ELSE find_lineage(taxid, t2p)
         IN  IF taxid = NoTaxidFound
             THEN [row |-> [ORF |-> ORF, lineage |-> "no taxid found",
                            taxids |-> <<>>, bitscore |-> top_bitscore],
                   entries |-> << <<taxid, top_bitscore>> >>]
             ELSE [row |-> [ORF |-> ORF, lineage |-> "lineage",
                            taxids |-> Reverse(lineage), bitscore |-> top_bitscore],
                   entries |-> << <<lineage[1], top_bitscore>> >>]

\* What the loop body does for one ORF: its row of outf2, and its entry of
\* LCAs_ORFs if it has one.
ORFStep(ORF, hits_of, f2t, t2p, multiple_offspring, no_stars) ==
    IF ORF \notin DOMAIN hits_of
    THEN [row |-> [ORF |-> ORF, lineage |-> "ORF has no hit to database",
                   taxids |-> <<>>, bitscore |-> 0],
          entries |-> <<>>]
    ELSE LET LCA == find_LCA_for_ORF(hits_of[ORF], f2t, t2p)
             taxid == LCA[1]
             top_bitscore == LCA[2]
             lineage == IF ~no_stars
                        THEN star_lineage(find_lineage(taxid, t2p), multiple_offspring)
                        ELSE find_lineage(taxid, t2p)
         IN  IF taxid = NoTaxidFound
             THEN [row |-> [ORF |-> ORF, lineage |-> "no taxid found",
                            taxids |-> <<>>, bitscore |-> top_bitscore],
                   entries |-> << <<taxid, top_bitscore>> >>]
             ELSE [row |-> [ORF |-> ORF, lineage |-> "lineage",
                            taxids |-> Reverse(lineage), bitscore |-> top_bitscore],
                   entries |-> << <<taxid, top_bitscore>> >>]

\* As BinStep, but the bin is counted before the weighted LCA is looked at.
BinStep_counted_first(LCAs, t2p, f, total_n_ORFs, no_stars, multiple_offspring) ==
    IF Len(LCAs) = 0
    THEN [rows |-> <<UnclassifiedRow("no hits to database")>>, classified |-> 0]
    ELSE LET found == find_weighted_LCA(LCAs, t2p, f)
         IN  IF found.lineages = "no ORFs with taxids found."
             THEN [rows |-> <<UnclassifiedRow("hits not found in taxonomy files")>>,
                   classified |-> 1]
             ELSE IF found.lineages = "no lineage whitelisted."
             THEN [rows |-> <<UnclassifiedRow(
                                "no lineage reached minimum bit-score support")>>,
                   classified |-> 1]
             ELSE [rows |-> [i \in 1..Len(found.list) |->
                                ClassifiedRow(i - 1, found.list, found.lineages_scores,
                                              found.based_on_n_ORFs, total_n_ORFs,
                                              no_stars, multiple_offspring)],
                   classified |-> 1]

\* What the loop body writes to outf1 for the bin, and whether it counts the bin.
BinStep(LCAs, t2p, f, total_n_ORFs, no_stars, multiple_offspring) ==
    IF Len(LCAs) = 0
    THEN [rows |-> <<UnclassifiedRow("no hits to database")>>, classified |-> 0]
    ELSE LET found == find_weighted_LCA(LCAs, t2p, f)
         IN  IF found.lineages = "no ORFs with taxids found."
             THEN [rows |-> <<UnclassifiedRow("hits not found in taxonomy files")>>,
                   classified |-> 0]
             ELSE IF found.lineages = "no lineage whitelisted."
             THEN [rows |-> <<UnclassifiedRow(
                                "no lineage reached minimum bit-score support")>>,
                   classified |-> 0]
             ELSE [rows |-> [i \in 1..Len(found.list) |->
                                ClassifiedRow(i - 1, found.list, found.lineages_scores,
                                              found.based_on_n_ORFs, total_n_ORFs,
                                              no_stars, multiple_offspring)],
                   classified |-> 1]

----------------------------------------------------------------------------
(* The inputs of a run. *)

Hits == [hit : Accessions, bitscore : BitScores]

\* The hits an ORF of a bin may have in the alignment table: none, or one hit.
BinHitLists == {<<>>} \cup {<<h>> : h \in {x \in Hits : x.bitscore # 60}}

RECURSIVE SeqsUpTo(_, _)
SeqsUpTo(S, n) ==
    IF n = 0 THEN {<<>>}
    ELSE LET shorter == SeqsUpTo(S, n - 1)
         IN  shorter \cup {Append(s, x) : s \in shorter, x \in S}

\* Every list of at most MaxHits hits, in any order.
ORFHitLists == SeqsUpTo(Hits, MaxHits)

\* An optional path: the path given, or None.
None == ""

Optional(path) == {None, path}

\* The command lines of the runs on a bin: r is left at its default.
BinArgs == [proteins_fasta : Optional("proteins.faa"),
            alignment_file : Optional("alignment.diamond"), no_stars : BOOLEAN,
            force : BOOLEAN, f : FValues, r : {5}]

\* The command lines of the runs on a single ORF: f is left at its default.
ORFArgs == [proteins_fasta : Optional("proteins.faa"),
            alignment_file : Optional("alignment.diamond"), no_stars : {FALSE},
            force : BOOLEAN, f : {30}, r : RValues]

\* The pre-flight checks that apply, in the order they are carried out.
PreflightChecks(steps, force) ==
    <<"check_out_prefix", "check_bin_fasta">>
    \o (IF "predict_proteins" \in Range(steps)
        THEN <<"check_prodigal_binaries">>
             \o (IF ~force THEN <<"check_output_file proteins_fasta",
                                  "check_output_file proteins_gff">>
                 ELSE <<>>)
        ELSE <<>>)
    \o (IF "align" \in Range(steps)
        THEN <<"check_diamond_binaries">>
             \o (IF ~force THEN <<"check_output_file alignment_file">> ELSE <<>>)
        ELSE <<>>)
    \o <<"check_folders_for_run">>
    \o (IF ~force THEN <<"check_output_file bin2classification",
                         "check_output_file ORF2LCA">>
        ELSE <<>>)
    \o (IF "predict_proteins" \notin Range(steps) THEN <<"check_fasta">> ELSE <<>>)

----------------------------------------------------------------------------
(* run() *)

\* run() after parse_arguments.
Start(arguments) ==
    /\ args \in arguments
    /\ pc = "check state"
    /\ exit_reason = ""
    /\ step_list = <<>>
    /\ errors = <<>>
    /\ log = <<>>
    /\ ORFs = <<>>
    /\ alignment = <<>>
    /\ ORF2hits = <<>>
    /\ all_hits = {}
    /\ taxid2parent = <<>>
    /\ fastaid2LCAtaxid = <<>>
    /\ taxids_with_multiple_offspring = {}
    /\ n_done = 0
    /\ LCAs_ORFs = <<>>
    /\ outf1 = <<>>
    /\ outf2 = <<>>
    /\ n_classified_bins = 0

\* As CheckState, but with the first branch copied whole into the second.
CheckState_branch_copied ==
    /\ pc = "check state"
    /\ IF args.proteins_fasta = None /\ args.alignment_file = None
       THEN /\ step_list' = <<"predict_proteins", "align", "classify">>
            /\ pc' = "pre-flight"
            /\ exit_reason' = exit_reason
       ELSE IF args.proteins_fasta # None /\ args.alignment_file = None
       THEN /\ step_list' = <<"predict_proteins", "align", "classify">>
            /\ pc' = "pre-flight"
            /\ exit_reason' = exit_reason
       ELSE IF args.proteins_fasta # None /\ args.alignment_file # None
       THEN /\ step_list' = <<"classify">>
            /\ pc' = "pre-flight"
            /\ exit_reason' = exit_reason
       ELSE /\ step_list' = step_list
            /\ pc' = "exit"
            /\ exit_reason' = "alignment table without predicted proteins"
    /\ UNCHANGED <<args, errors, log, ORFs, alignment, ORF2hits, all_hits,
                   taxid2parent, fastaid2LCAtaxid, taxids_with_multiple_offspring,
                   n_done, LCAs_ORFs, outf1, outf2, n_classified_bins>>

\* Lines 256-296: at which state to start.
CheckState ==
    /\ pc = "check state"
    /\ IF args.proteins_fasta = None /\ args.alignment_file = None
       THEN /\ step_list' = <<"predict_proteins", "align", "classify">>
            /\ pc' = "pre-flight"
            /\ exit_reason' = exit_reason
       ELSE IF args.proteins_fasta # None /\ args.alignment_file = None
       THEN /\ step_list' = <<"align", "classify">>
            /\ pc' = "pre-flight"
            /\ exit_reason' = exit_reason
       ELSE IF args.proteins_fasta # None /\ args.alignment_file # None
       THEN /\ step_list' = <<"classify">>
            /\ pc' = "pre-flight"
            /\ exit_reason' = exit_reason
       ELSE /\ step_list' = step_list
            /\ pc' = "exit"
            /\ exit_reason' = "alignment table without predicted proteins"
    /\ UNCHANGED <<args, errors, log, ORFs, alignment, ORF2hits, all_hits,
                   taxid2parent, fastaid2LCAtaxid, taxids_with_multiple_offspring,
                   n_done, LCAs_ORFs, outf1, outf2, n_classified_bins>>

\* As Preflight, but no check is carried out after one that found an error.
Preflight_stop_at_first_error ==
    /\ pc = "pre-flight"
    /\ LET checks == PreflightChecks(step_list, args.force)
       IN  \E failing \in SUBSET Range(checks) :
               /\ errors' = SubSeq([i \in 1..Len(checks) |-> checks[i] \in failing], 1,
                                    Cardinality({i \in 1..Len(checks) :
                                        \A k \in 1..(i - 1) : checks[k] \notin failing}))
               /\ IF TRUE \in Range(errors')
                  THEN /\ pc' = "exit"
                       /\ exit_reason' = "pre-flight"
                  ELSE /\ pc' = "import_contig_names"
                       /\ exit_reason' = exit_reason
    /\ args' = [args EXCEPT
                   !.proteins_fasta = IF "predict_proteins" \in Range(step_list)
                                      THEN "out.BAT.predicted_proteins.faa" ELSE @,
                   !.alignment_file = IF "align" \in Range(step_list)
                                      THEN "out.BAT.alignment.diamond" ELSE @]
    /\ log' = Append(log, "pre-flight checks")
    /\ UNCHANGED <<step_list, ORFs, alignment, ORF2hits, all_hits, taxid2parent,
                   fastaid2LCAtaxid, taxids_with_multiple_offspring, n_done,
                   LCAs_ORFs, outf1, outf2, n_classified_bins>>

\* Lines 325-410: the pre-flight checks; each returns whether it found an error.
Preflight ==
    /\ pc = "pre-flight"
    /\ LET checks == PreflightChecks(step_list, args.force)
       IN  \E failing \in SUBSET Range(checks) :
               /\ errors' = [i \in 1..Len(checks) |-> checks[i] \in failing]
               /\ IF TRUE \in Range(errors')
                  THEN /\ pc' = "exit"
                       /\ exit_reason' = "pre-flight"
                  ELSE /\ pc' = "import_contig_names"
                       /\ exit_reason' = exit_reason
    /\ args' = [args EXCEPT
                   !.proteins_fasta = IF "predict_proteins" \in Range(step_list)
                                      THEN "out.BAT.predicted_proteins.faa" ELSE @,
                   !.alignment_file = IF "align" \in Range(step_list)
                                      THEN "out.BAT.alignment.diamond" ELSE @]
    /\ log' = Append(log, "pre-flight checks")
    /\ UNCHANGED <<step_list, ORFs, alignment, ORF2hits, all_hits, taxid2parent,
                   fastaid2LCAtaxid, taxids_with_multiple_offspring, n_done,
                   LCAs_ORFs, outf1, outf2, n_classified_bins>>

\* Lines 413-414.
import_contig_names ==
    /\ pc = "import_contig_names"
    /\ pc' = IF "predict_proteins" \in Range(step_list)
             THEN "run_prodigal" ELSE "import_ORFs"
    /\ log' = Append(log, "import_contig_names")
    /\ UNCHANGED <<args, exit_reason, step_list, errors, ORFs, alignment, ORF2hits,
                   all_hits, taxid2parent, fastaid2LCAtaxid,
                   taxids_with_multiple_offspring, n_done, LCAs_ORFs, outf1, outf2,
                   n_classified_bins>>

\* Lines 416-423; Prodigal may fail, which ends the run.
run_prodigal ==
    /\ pc = "run_prodigal"
    /\ \E ok \in BOOLEAN :
           IF ok THEN /\ pc' = "import_ORFs"
                      /\ exit_reason' = exit_reason
           ELSE /\ pc' = "exit"
                /\ exit_reason' = "input"
    /\ log' = Append(log, "predict_proteins")
    /\ UNCHANGED <<args, step_list, errors, ORFs, alignment, ORF2hits, all_hits,
                   taxid2parent, fastaid2LCAtaxid, taxids_with_multiple_offspring,
                   n_done, LCAs_ORFs, outf1, outf2, n_classified_bins>>

\* Lines 425-429: the ORFs of the bin, which must lie on contigs of the bin.
import_ORFs(most) ==
    /\ pc = "import_ORFs"
    /\ \E n \in 0..most, on_contigs \in BOOLEAN :
           /\ ORFs' = [i \in 1..n |-> i]
           /\ IF on_contigs
              THEN /\ pc' = IF "align" \in Range(step_list)
                            THEN "run_diamond" ELSE "parse_tabular_alignment"
                   /\ exit_reason' = exit_reason
              ELSE /\ pc' = "exit"
                   /\ exit_reason' = "input"
    /\ log' = Append(log, "import_ORFs")
    /\ UNCHANGED <<args, step_list, errors, alignment, ORF2hits, all_hits,
                   taxid2parent, fastaid2LCAtaxid, taxids_with_multiple_offspring,
                   n_done, LCAs_ORFs, outf1, outf2, n_classified_bins>>

\* Lines 431-445; DIAMOND may fail, which ends the run.
run_diamond ==
    /\ pc = "run_diamond"
    /\ \E ok \in BOOLEAN :
           IF ok THEN /\ pc' = "parse_tabular_alignment"
                      /\ exit_reason' = exit_reason
           ELSE /\ pc' = "exit"
                /\ exit_reason' = "input"
    /\ log' = Append(log, "align")
    /\ UNCHANGED <<args, step_list, errors, ORFs, alignment, ORF2hits, all_hits,
                   taxid2parent, fastaid2LCAtaxid, taxids_with_multiple_offspring,
                   n_done, LCAs_ORFs, outf1, outf2, n_classified_bins>>

\* Lines 447-452: the table is read, and of every ORF the hits within range kept.
parse_tabular_alignment(lists) ==
    /\ pc = "parse_tabular_alignment"
    /\ \E table \in [1..Len(ORFs) -> lists] :
           /\ alignment' = table
           /\ ORF2hits' = [ORF \in {o \in 1..Len(ORFs) : table[o] # <<>>} |->
                              HitsInRange(table[ORF], args.r)]
           /\ all_hits' = UNION {{h.hit : h \in Range(ORF2hits'[ORF])} :
                                     ORF \in DOMAIN ORF2hits'}
    /\ pc' = "import_nodes"
    /\ log' = Append(log, "parse_tabular_alignment")
    /\ UNCHANGED <<args, exit_reason, step_list, errors, ORFs, taxid2parent,
                   fastaid2LCAtaxid, taxids_with_multiple_offspring, n_done,
                   LCAs_ORFs, outf1, outf2, n_classified_bins>>

\* Lines 454-456: nodes.dmp; a record that cannot be split ends the run.
import_nodes ==
    /\ pc = "import_nodes"
    /\ \E well_formed \in BOOLEAN :
           IF well_formed
           THEN /\ taxid2parent' = nodes_dmp
                /\ pc' = "import_fastaid2LCAtaxid"
                /\ exit_reason' = exit_reason
           ELSE /\ taxid2parent' = taxid2parent
                /\ pc' = "exit"
                /\ exit_reason' = "input"
    /\ log' = Append(log, "import_nodes")
    /\ UNCHANGED <<args, step_list, errors, ORFs, alignment, ORF2hits, all_hits,
                   fastaid2LCAtaxid, taxids_with_multiple_offspring, n_done,
                   LCAs_ORFs, outf1, outf2, n_classified_bins>>

\* Lines 457-458: only the accessions that were hit are kept.
import_fastaid2LCAtaxid ==
    /\ pc = "import_fastaid2LCAtaxid"
    /\ fastaid2LCAtaxid' = [a \in all_hits \cap DOMAIN fastaid2LCAtaxid_file |->
                               fastaid2LCAtaxid_file[a]]
    /\ pc' = "import_taxids_with_multiple_offspring"
    /\ log' = Append(log, "import_fastaid2LCAtaxid")
    /\ UNCHANGED <<args, exit_reason, step_list, errors, ORFs, alignment, ORF2hits,
                   all_hits, taxid2parent, taxids_with_multiple_offspring, n_done,
                   LCAs_ORFs, outf1, outf2, n_classified_bins>>

\* Lines 459-462.
import_taxids_with_multiple_offspring ==
    /\ pc = "import_taxids_with_multiple_offspring"
    /\ taxids_with_multiple_offspring' = taxids_with_multiple_offspring_file
    /\ pc' = "open"
    /\ log' = Append(log, "import_taxids_with_multiple_offspring")
    /\ UNCHANGED <<args, exit_reason, step_list, errors, ORFs, alignment, ORF2hits,
                   all_hits, taxid2parent, fastaid2LCAtaxid, n_done, LCAs_ORFs,
                   outf1, outf2, n_classified_bins>>

\* Lines 468-478: both reports are opened and get their header line.
OpenReports ==
    /\ pc = "open"
    /\ n_classified_bins' = 0
    /\ outf1' = <<Outf1Header>>
    /\ outf2' = <<Outf2Header>>
    /\ LCAs_ORFs' = <<>>
    /\ pc' = IF Len(ORFs) = 0 THEN "classify bin" ELSE "classify ORF"
    /\ UNCHANGED <<args, exit_reason, step_list, errors, log, ORFs, alignment,
                   ORF2hits, all_hits, taxid2parent, fastaid2LCAtaxid,
                   taxids_with_multiple_offspring, n_done>>

\* As ClassifyORF, but an ORF that is not in ORF2hits is looked up all the same,
\* which ends the run with a KeyError.
ClassifyORF_without_hit_check ==
    /\ pc = "classify ORF"
    /\ LET step == ORFStep(ORFs[n_done + 1], ORF2hits, fastaid2LCAtaxid,
                           taxid2parent, taxids_with_multiple_offspring,
                           args.no_stars)
       IN  IF ORFs[n_done + 1] \in DOMAIN ORF2hits
           THEN /\ outf2' = Append(outf2, step.row)
                /\ LCAs_ORFs' = LCAs_ORFs \o step.entries
                /\ n_done' = n_done + 1
                /\ pc' = IF n_done' = Len(ORFs) THEN "classify bin" ELSE "classify ORF"
                /\ exit_reason' = exit_reason
           ELSE /\ UNCHANGED <<outf2, LCAs_ORFs, n_done>>
                /\ pc' = "exit"
                /\ exit_reason' = "KeyError"
    /\ log' = Append(log, "classify ORF")
    /\ UNCHANGED <<args, step_list, errors, ORFs, alignment, ORF2hits,
                   all_hits, taxid2parent, fastaid2LCAtaxid,
                   taxids_with_multiple_offspring, outf1, n_classified_bins>>

\* Lines 484-510: one pass of the loop over the ORFs.
ClassifyORF ==
    /\ pc = "classify ORF"
    /\ LET step == ORFStep(ORFs[n_done + 1], ORF2hits, fastaid2LCAtaxid,
                           taxid2parent, taxids_with_multiple_offspring,
                           args.no_stars)
       IN  /\ outf2' = Append(outf2, step.row)
           /\ LCAs_ORFs' = LCAs_ORFs \o step.entries
    /\ n_done' = n_done + 1
    /\ pc' = IF n_done' = Len(ORFs) THEN "classify bin" ELSE "classify ORF"
    /\ log' = Append(log, "classify ORF")
    /\ UNCHANGED <<args, exit_reason, step_list, errors, ORFs, alignment, ORF2hits,
                   all_hits, taxid2parent, fastaid2LCAtaxid,
                   taxids_with_multiple_offspring, outf1, n_classified_bins>>

\* Lines 512-578: the bin is classified and its rows are written.
ClassifyBin ==
    /\ pc = "classify bin"
    /\ LET step == BinStep(LCAs_ORFs, taxid2parent, args.f, Len(ORFs),
                           args.no_stars, taxids_with_multiple_offspring)
       IN  /\ outf1' = outf1 \o step.rows
           /\ n_classified_bins' = n_classified_bins + step.classified
    /\ pc' = "report"
    /\ log' = Append(log, "classify bin")
    /\ UNCHANGED <<args, exit_reason, step_list, errors, ORFs, alignment, ORF2hits,
                   all_hits, taxid2parent, fastaid2LCAtaxid,
                   taxids_with_multiple_offspring, n_done, LCAs_ORFs, outf2>>

\* Lines 580-593: the closing message, the warning when f < 0.5, and the return.
Done ==
    /\ pc = "report"
    /\ log' = IF args.f < 50
              THEN log \o <<"BAT is done", "WARNING: f smaller than 0.5">>
              ELSE Append(log, "BAT is done")
    /\ pc' = "done"
    /\ UNCHANGED <<args, exit_reason, step_list, errors, ORFs, alignment, ORF2hits,
                   all_hits, taxid2parent, fastaid2LCAtaxid,
                   taxids_with_multiple_offspring, n_done, LCAs_ORFs, outf1, outf2,
                   n_classified_bins>>

Steps ==
    \/ CheckState
    \/ Preflight
    \/ import_contig_names
    \/ run_prodigal
    \/ run_diamond
    \/ import_nodes
    \/ import_fastaid2LCAtaxid
    \/ import_taxids_with_multiple_offspring
    \/ OpenReports
    \/ ClassifyORF
    \/ ClassifyBin
    \/ Done

\* A bin of at most MaxORFs ORFs with at most one hit each.
Next ==
    \/ Steps
    \/ import_ORFs(MaxORFs)
    \/ parse_tabular_alignment(BinHitLists)

Init == Start(BinArgs)

Spec == Init /\ [][Next]_vars

\* A bin of at most one ORF, with every list of at most MaxHits hits.
NextORF ==
    \/ Steps
    \/ import_ORFs(1)
    \/ parse_tabular_alignment(ORFHitLists)

InitORF == Start(ORFArgs)

SpecORF == InitORF /\ [][NextORF]_vars

----------------------------------------------------------------------------
(* Properties of the reports. *)

BinClassified == pc \in {"report", "done"}

\* The rows of outf1 below the header.
BinRows == SubSeq(outf1, 2, Len(outf1))

\* The rows of outf2 below the header.
ORFRows == SubSeq(outf2, 2, Len(outf2))

\* C1: with at least one ORF that has a taxid and f >= 0.5 (f = 0.5 included),
\* the bin gets exactly one row in the bin report, and its classification is
\* 'classified', never 'classified (i/n)'.
C1_OneClassificationFromHalf ==
    (BinClassified /\ WithTaxid(LCAs_ORFs) # <<>> /\ args.f >= 50)
        => (Len(BinRows) = 1 /\ BinRows[1].classification = "classified")

----------------------------------------------------------------------------
(* Properties of the range window, for the one ORF of SpecORF. *)

\* fastaid2LCAtaxid as it is loaded for a set of hits.
LoadedFor(hits) ==
    [a \in {hits[i].hit : i \in 1..Len(hits)} \cap DOMAIN fastaid2LCAtaxid_file |->
        fastaid2LCAtaxid_file[a]]

\* The taxid the hits resolve to when the run is given range r.
ResolvedUnder(hits, r) ==
    find_LCA_for_ORF(HitsInRange(hits, r), LoadedFor(HitsInRange(hits, r)), nodes_dmp)[1]

\* The ORF was in the alignment table and the loop has handled it.
ORFHandled == pc = "done" /\ Len(ORFs) = 1 /\ alignment[1] # <<>>

\* C3 as stated: under every wider range the ORF resolves to the taxid it has
\* now or to an ancestor of it; an ORF without taxid stays without taxid.
C3_WiderRangeNeverMoreSpecific ==
    ORFHandled =>
        \A r2 \in RChoices :
            r2 > args.r =>
                LET t1 == LCAs_ORFs[1][1]
                    t2 == ResolvedUnder(alignment[1], r2)
                IN  \/ t2 = t1
                    \/ /\ t1 # NoTaxidFound
                       /\ t2 # NoTaxidFound
                       /\ t2 \in Range(find_lineage(t1, nodes_dmp))

\* C3 (amended): an ORF that has a taxid under r has, under every wider range,
\* that taxid or an ancestor of it; an ORF without taxid under r may get one.
C3_WiderRangeAncestorOrEqual ==
    (ORFHandled /\ LCAs_ORFs[1][1] # NoTaxidFound) =>
        \A r2 \in RChoices :
            r2 > args.r =>
                LET t1 == LCAs_ORFs[1][1]
                    t2 == ResolvedUnder(alignment[1], r2)
                IN  /\ t2 # NoTaxidFound
                    /\ t2 \in Range(find_lineage(t1, nodes_dmp))

\* A wider range turns the ORF's taxid into a proper ancestor.
C3_Witness ==
    /\ ORFHandled
    /\ LCAs_ORFs[1][1] = 3
    /\ \E r2 \in RChoices : r2 > args.r /\ ResolvedUnder(alignment[1], r2) = 2

----------------------------------------------------------------------------
(* Properties of the run as a whole. *)

Ended == pc \in {"done", "exit"}

HasHeader(outf, header) == Len(outf) >= 1 /\ outf[1] = header

BothReportsWritten == HasHeader(outf1, Outf1Header) /\ HasHeader(outf2, Outf2Header)

----------------------------------------------------------------------------
(* Properties of the ORFs without taxid. *)

ORFLoopEntered == pc \in {"classify ORF", "classify bin", "report", "done"}

\* An ORF without lineage has a row that says why.
UnresolvedRowsCarryReason ==
    \A k \in 1..Len(ORFRows) :
        ORFRows[k].taxids = <<>>
            => ORFRows[k].lineage \in {"ORF has no hit to database", "no taxid found"}

\* The rows of outf2 of the ORFs that have a lineage.
RowsWithLineage == SelectSeq(ORFRows, LAMBDA row : row.lineage = "lineage")

\* The summed bit-score of the rows with a lineage through taxid.
RowWeight(taxid) ==
    SumSeq([k \in 1..Len(RowsWithLineage) |->
               IF taxid \in {Unstar(t) : t \in Range(RowsWithLineage[k].taxids)}
               THEN RowsWithLineage[k].bitscore ELSE 0])

\* C5 as stated: an ORF without hit and an ORF whose hits have no taxid each get
\* a row with a reason, and neither has an entry in LCAs_ORFs, the list handed
\* to the bin classifier.
C5_UnresolvedORFsHaveNoEntry ==
    ORFLoopEntered =>
        /\ UnresolvedRowsCarryReason
        /\ Len(LCAs_ORFs) = Len(RowsWithLineage)
        /\ \A k \in 1..Len(LCAs_ORFs) : LCAs_ORFs[k][1] # NoTaxidFound

\* C5 (amended): both get a row with a reason. An ORF without hit has no entry
\* in LCAs_ORFs; an ORF whose hits have no taxid has the entry ('no taxid found',
\* top bit-score), which the bin classifier passes over: every score of the bin
\* report is the weight of the ORFs with a lineage through the taxid over the
\* weight of all ORFs with a lineage.
C5_UnresolvedORFsAddNoWeight ==
    ORFLoopEntered =>
        /\ UnresolvedRowsCarryReason
        /\ LET with_hit == SelectSeq(ORFRows,
                               LAMBDA row : row.lineage # "ORF has no hit to database")
           IN  /\ Len(LCAs_ORFs) = Len(with_hit)
               /\ \A k \in 1..Len(with_hit) :
                      /\ LCAs_ORFs[k][2] = with_hit[k].bitscore
                      /\ (LCAs_ORFs[k][1] = NoTaxidFound)
                             <=> (with_hit[k].lineage = "no taxid found")
                      /\ with_hit[k].lineage = "lineage"
                             => LCAs_ORFs[k][1]
                                    = Unstar(with_hit[k].taxids[Len(with_hit[k].taxids)])
        /\ (BinClassified /\ n_classified_bins = 1) =>
               \A k \in 1..Len(BinRows) :
                   /\ BinRows[k].based_on_n_ORFs <= Len(RowsWithLineage)
                   /\ \A j \in 1..Len(BinRows[k].lineage) :
                          BinRows[k].scores[j]
                              = Format2(<<RowWeight(Unstar(BinRows[k].lineage[j])),
                                          RowWeight(Unstar(BinRows[k].lineage[1]))>>)

\* A classified bin with an ORF whose hits have no taxid: its entry is in
\* LCAs_ORFs, and the root still has a score of 1.00.
C5_Witness ==
    /\ BinClassified /\ n_classified_bins = 1
    /\ \E k \in 1..Len(LCAs_ORFs) : LCAs_ORFs[k][1] = NoTaxidFound /\ LCAs_ORFs[k][2] > 0
    /\ BinRows[1].scores[1] = 100

----------------------------------------------------------------------------
(* Properties of the bin report. *)

\* Every ORF of the bin is without hit.
OnlyORFsWithoutHit ==
    \A k \in 1..Len(ORFRows) : ORFRows[k].lineage = "ORF has no hit to database"

\* The bin has ORFs with hits, but none of them has a taxid.
OnlyORFsWithoutTaxid ==
    /\ RowsWithLineage = <<>>
    /\ \E k \in 1..Len(ORFRows) : ORFRows[k].lineage = "no taxid found"

\* The bin has ORFs with a lineage, but no taxid of them has a support of f.
NoLineageSupported ==
    /\ RowsWithLineage # <<>>
    /\ \A t \in DOMAIN taxid2parent :
           RowWeight(t) * 100 < args.f * RowWeight(RowsWithLineage[1].taxids[1])

\* C6: a bin whose ORFs all lack hits, a bin whose ORFs have hits without taxid
\* only and a bin without supported lineage each get exactly one row, which is
\* 'unclassified' and has its reason; the bin is not counted as classified and
\* the run is not ended by sys.exit.
C6_UnclassifiedIsAnOutcome ==
    (BinClassified /\ (OnlyORFsWithoutHit \/ OnlyORFsWithoutTaxid \/ NoLineageSupported))
        => /\ Len(BinRows) = 1
           /\ BinRows[1].classification = "unclassified"
           /\ BinRows[1].reason =
                  IF OnlyORFsWithoutHit THEN "no hits to database"
                  ELSE IF OnlyORFsWithoutTaxid THEN "hits not found in taxonomy files"
                  ELSE "no lineage reached minimum bit-score support"
           /\ n_classified_bins = 0
           /\ exit_reason = ""

\* A run has returned for a bin whose ORFs have hits without taxid only.
C6_Witness ==
    /\ pc = "done"
    /\ Len(ORFRows) = 2
    /\ OnlyORFsWithoutTaxid
    /\ BinRows[1].reason = "hits not found in taxonomy files"

\* Scenario 2: taxid 3 with weight 100 and taxid 4 with weight 50, f = 0.3.
Scenario2 ==
    /\ BinClassified
    /\ args.f = 30
    /\ LCAs_ORFs = << <<3, 100>>, <<4, 50>> >>
    /\ taxid2parent[3] = 2 /\ taxid2parent[4] = 2 /\ taxid2parent[2] = 1

LeafOf(row) == Unstar(row.lineage[Len(row.lineage)])

\* C7 as stated: in scenario 2 two classifications are written, one ending at 3
\* and one at 4, and each reports 1 as the number of ORFs it is based on.
C7_OneORFPerLineage ==
    Scenario2 =>
        /\ Len(BinRows) = 2
        /\ {LeafOf(BinRows[1]), LeafOf(BinRows[2])} = {3, 4}
        /\ \A k \in 1..2 : BinRows[k].based_on_n_ORFs = 1

\* C7 (amended): in scenario 2 two classifications are written, one ending at 3
\* and one at 4, and both report 2 as the number of ORFs: the one number that
\* the weighted LCA returns for the bin.
C7_OneCountPerBin ==
    Scenario2 =>
        /\ Len(BinRows) = 2
        /\ {LeafOf(BinRows[1]), LeafOf(BinRows[2])} = {3, 4}
        /\ \A k \in 1..2 :
               /\ BinRows[k].classification = "classified (i/n)"
               /\ BinRows[k].i = k /\ BinRows[k].n = 2
               /\ BinRows[k].based_on_n_ORFs = 2
               /\ BinRows[k].scores = IF LeafOf(BinRows[k]) = 3
                                      THEN <<100, 100, 67>> ELSE <<100, 100, 33>>

C7_Witness == Scenario2 /\ pc = "done" /\ Len(BinRows) = 2

\* C8: a classified bin with n lineages has n rows, in the order of the
\* lineages; the one row of n = 1 is 'classified', row k of n > 1 is
\* 'classified (k/n)'; lineage and scores of a row run from the root to the
\* leaf and score j is the support of entry j of the lineage.
C8_RowsOfAClassifiedBin ==
    (BinClassified /\ n_classified_bins = 1) =>
        LET found == find_weighted_LCA(LCAs_ORFs, taxid2parent, args.f)
            n == Len(BinRows)
        IN  /\ n >= 1
            /\ n = Len(found.list)
            /\ n = 1 => BinRows[1].classification = "classified"
            /\ \A k \in 1..n :
                   LET row == BinRows[k]
                       taxids == [j \in 1..Len(row.lineage) |-> Unstar(row.lineage[j])]
                   IN  /\ n > 1 => /\ row.classification = "classified (i/n)"
                                   /\ row.i = k
                                   /\ row.n = n
                       /\ Len(row.lineage) = Len(row.scores)
                       /\ taxids = Reverse(found.list[k])
                       /\ taxid2parent[taxids[1]] = taxids[1]
                       /\ \A j \in 2..Len(taxids) :
                              taxid2parent[taxids[j]] = taxids[j - 1]
                       /\ \A j \in 1..Len(taxids) :
                              row.scores[j] = Format2(<<RowWeight(taxids[j]),
                                                        RowWeight(taxids[1])>>)

\* Two rows, the first with a leaf that has less support than the root.
C8_Witness ==
    /\ pc = "done" /\ n_classified_bins = 1
    /\ Len(BinRows) = 2
    /\ BinRows[2].i = 2
    /\ Len(BinRows[1].scores) = 3
    /\ BinRows[1].scores[3] < BinRows[1].scores[1]

----------------------------------------------------------------------------
(* Properties of the stars. *)

RECURSIVE ORFLoop(_, _)
\* The rows and the entries of the first n ORFs of a run with the given no_stars.
ORFLoop(n, no_stars) ==
    IF n = 0 THEN [rows |-> <<>>, entries |-> <<>>]
    ELSE LET before == ORFLoop(n - 1, no_stars)
             step == ORFStep(ORFs[n], ORF2hits, fastaid2LCAtaxid, taxid2parent,
                             taxids_with_multiple_offspring, no_stars)
         IN  [rows |-> Append(before.rows, step.row),
              entries |-> before.entries \o step.entries]

\* The bin rows of a run with the given no_stars.
BinLoop(no_stars) ==
    BinStep(ORFLoop(Len(ORFs), no_stars).entries, taxid2parent, args.f, Len(ORFs),
            no_stars, taxids_with_multiple_offspring)

WithoutStars(lineage) == [j \in 1..Len(lineage) |-> Unstar(lineage[j])]

\* C9: the run with stars and the run with --no_stars on the same input agree
\* on the entries of LCAs_ORFs (taxids and bit-scores), on every row of the ORF
\* report and of the bin report (number, order, scores, number of ORFs) once
\* the stars are taken off, and on whether the bin counts as classified; and
\* the run at hand is the one of them that its no_stars says.
C9_StarsAreOnlyMarkers ==
    /\ pc \in {"classify bin", "report", "done"} =>
           LET starred == ORFLoop(Len(ORFs), FALSE)
               plain == ORFLoop(Len(ORFs), TRUE)
           IN  /\ LCAs_ORFs = IF args.no_stars THEN plain.entries ELSE starred.entries
               /\ ORFRows = IF args.no_stars THEN plain.rows ELSE starred.rows
               /\ starred.entries = plain.entries
               /\ plain.rows = [k \in 1..Len(starred.rows) |->
                                   [starred.rows[k] EXCEPT !.taxids = WithoutStars(@)]]
    /\ BinClassified =>
           LET starred == BinLoop(FALSE)
               plain == BinLoop(TRUE)
           IN  /\ BinRows = IF args.no_stars THEN plain.rows ELSE starred.rows
               /\ n_classified_bins = starred.classified
               /\ starred.classified = plain.classified
               /\ plain.rows = [k \in 1..Len(starred.rows) |->
                                   [starred.rows[k] EXCEPT !.lineage = WithoutStars(@)]]

\* A run with stars has returned, with a star in either report.
C9_Witness ==
    /\ pc = "done" /\ ~args.no_stars
    /\ n_classified_bins = 1
    /\ \E j \in 1..Len(BinRows[1].lineage) : BinRows[1].lineage[j] < 0
    /\ \E k \in 1..Len(ORFRows) :
           \E j \in 1..Len(ORFRows[k].taxids) : ORFRows[k].taxids[j] < 0

----------------------------------------------------------------------------
(* Properties of the order of the steps. *)

\* log[i] comes before every one of the later events.
Before(first, later) ==
    \A i, j \in 1..Len(log) : (log[i] = first /\ log[j] \in later) => i < j

\* Once an event of later is in log, first is too.
Needs(later, first) ==
    (\E j \in 1..Len(log) : log[j] \in later) => first \in Range(log)

Classification == {"classify ORF", "classify bin"}

Imports == {"import_nodes", "import_fastaid2LCAtaxid",
            "import_taxids_with_multiple_offspring"}

\* C10: the steps are chosen by the files supplied (none: predict_proteins,
\* align, classify; proteins: align, classify; both: classify; the alignment
\* alone: exit before any check, tool or report); classify is the last step,
\* protein prediction comes before the alignment, only the steps chosen are
\* carried out, and the three tables are loaded before the first ORF or the bin
\* is classified.
C10_StepsAndTheirOrder ==
    /\ pc # "check state" =>
           LET proteins == args.proteins_fasta = "proteins.faa"
               aligned == args.alignment_file = "alignment.diamond"
           IN  IF ~proteins /\ ~aligned
               THEN step_list = <<"predict_proteins", "align", "classify">>
               ELSE IF proteins /\ ~aligned
               THEN step_list = <<"align", "classify">>
               ELSE IF proteins /\ aligned
               THEN step_list = <<"classify">>
               ELSE /\ pc = "exit"
                    /\ exit_reason = "alignment table without predicted proteins"
                    /\ step_list = <<>> /\ errors = <<>> /\ log = <<>>
                    /\ outf1 = <<>> /\ outf2 = <<>>
    /\ step_list # <<>> => step_list[Len(step_list)] = "classify"
    /\ "predict_proteins" \in Range(log) => "predict_proteins" \in Range(step_list)
    /\ "align" \in Range(log) => "align" \in Range(step_list)
    /\ Before("predict_proteins", {"align"} \cup Imports \cup Classification)
    /\ Before("align", Imports \cup Classification)
    /\ Before("pre-flight checks", {"predict_proteins", "align"} \cup Classification)
    /\ \A table \in Imports :
           Before(table, Classification) /\ Needs(Classification, table)
    /\ pc \in {"classify ORF", "classify bin", "report", "done"} =>
           /\ "predict_proteins" \in Range(step_list) => "predict_proteins" \in Range(log)
           /\ "align" \in Range(step_list) => "align" \in Range(log)
           /\ taxid2parent = nodes_dmp
           /\ taxids_with_multiple_offspring = taxids_with_multiple_offspring_file
    /\ pc = "done" =>
           \A i \in 1..Len(log) :
               log[i] = "classify bin" =>
                   \A j \in (i + 1)..Len(log) :
                       log[j] \in {"BAT is done", "WARNING: f smaller than 0.5"}

\* A run of all three steps has returned, with an ORF classified.
C10_Witness ==
    /\ pc = "done"
    /\ step_list = <<"predict_proteins", "align", "classify">>
    /\ "classify ORF" \in Range(log)

----------------------------------------------------------------------------
(* Properties of the support of the root. *)

\* C11: when the list handed to the bin classifier has an entry with a taxid,
\* whatever f of the configured domain: the root of the tree holds the whole
\* summed bit-score, so it is whitelisted and the selected set is not empty;
\* the bin counts as classified and all its rows are classifications. The
\* reason 'no lineage reached minimum bit-score support' is in no report.
C11_RootIsAlwaysSupported ==
    /\ (BinClassified /\ WithTaxid(LCAs_ORFs) # <<>>) =>
           LET entries == WithTaxid(LCAs_ORFs)
               total == SumSeq([i \in 1..Len(entries) |-> entries[i][2]])
               lineage == find_lineage(entries[1][1], taxid2parent)
               root == lineage[Len(lineage)]
           IN  /\ args.f \in FChoices
               /\ taxid2parent[root] = root
               /\ taxid2bitscore(root, entries, taxid2parent) = total
               /\ Whitelisted(root, entries, taxid2parent, args.f)
               /\ LongestWhitelisted(entries, taxid2parent, args.f) # {}
               /\ find_weighted_LCA(LCAs_ORFs, taxid2parent, args.f).lineages = "lineages"
               /\ n_classified_bins = 1
               /\ BinRows # <<>>
               /\ \A k \in 1..Len(BinRows) :
                      /\ BinRows[k].classification # "unclassified"
                      /\ BinRows[k].scores[1] = 100
    /\ \A k \in 1..Len(outf1) :
           outf1[k].reason # "no lineage reached minimum bit-score support"

\* A run with the highest f has returned for a bin with two ORFs on different
\* taxids, and the bin is classified.
C11_Witness ==
    /\ pc = "done"
    /\ args.f = 99
    /\ Len(WithTaxid(LCAs_ORFs)) = 2
    /\ LCAs_ORFs[1][1] # LCAs_ORFs[2][1]
    /\ n_classified_bins = 1
    /\ Len(BinRows) = 1

----------------------------------------------------------------------------
(* Properties of the pre-flight checks. *)

PreflightDone == "pre-flight checks" \in Range(log)

\* C12: once the pre-flight checks are done, errors holds a result of every
\* check that applies to the steps and to args.force. With an error among them
\* the run has exited: nothing but the checks was carried out, no ORF and no
\* table was loaded, and neither report was opened. Without an error the run
\* is not ended for the checks and goes on to import_contig_names.
C12_PreflightGating ==
    /\ ~PreflightDone => errors = <<>>
    /\ PreflightDone =>
           /\ Len(errors) = Len(PreflightChecks(step_list, args.force))
           /\ TRUE \in Range(errors) =>
                  /\ pc = "exit" /\ exit_reason = "pre-flight"
                  /\ log = <<"pre-flight checks">>
                  /\ ORFs = <<>> /\ alignment = <<>> /\ ORF2hits = <<>>
                  /\ taxid2parent = <<>>
                  /\ outf1 = <<>> /\ outf2 = <<>>
           /\ TRUE \notin Range(errors) =>
                  /\ exit_reason # "pre-flight"
                  /\ pc = "import_contig_names" \/ "import_contig_names" \in Range(log)
    /\ exit_reason = "pre-flight" => (PreflightDone /\ TRUE \in Range(errors))
    /\ ({"predict_proteins", "align"} \cap Range(log) # {} \/ outf1 # <<>> \/ outf2 # <<>>)
           => (PreflightDone /\ TRUE \notin Range(errors))

\* A run has exited for its pre-flight checks: the first check found an error,
\* a later one did not and the last one did again.
C12_Witness ==
    /\ pc = "exit" /\ exit_reason = "pre-flight"
    /\ Len(errors) > 3
    /\ errors[1] /\ ~errors[2] /\ errors[Len(errors)]

====
